---------------------------- MODULE Spec2Model ----------------------------
(***************************************************************************)
(* Model of the request/error pipeline of casic's frontend:                *)
(*   src/frontend/lib/errors.ts  ApiError, ApiError.fromResponse,          *)
(*                               handleApiError                            *)
(*   src/frontend/lib/api.ts     token store, mergeHeaders, request,       *)
(*                               apiJson/apiText/apiBlob/apiFetch,         *)
(*                               apiDownload                               *)
(*   src/unnamed/part_000        proxy route GET /day-summary  (Handler A) *)
(*   src/unnamed/part_001        proxy route GET /export-report (Handler B)*)
(*                                                                         *)
(* Three specifications share the module: SpecErrors (errors.ts),          *)
(* SpecClient (api.ts) and SpecProxy (the two route handlers).  The        *)
(* variables of the components a specification does not run stay at their  *)
(* initial values.                                                         *)
(***************************************************************************)
EXTENDS Integers, Sequences, FiniteSets, TLC

VARIABLES
    \* ---- errors.ts exercised on its own (SpecErrors)
    errPc,          \* "idle" | "constructed" | "classified"
    errRes,         \* the Response handed to ApiError.fromResponse
    apiError,       \* the ApiError fromResponse resolved to
    clsIn,          \* the value handed to handleApiError
    clsOut,         \* what handleApiError did: [kind |-> "return", value] or [kind |-> "throw"]
    \* ---- api.ts (SpecClient)
    hasWindow,      \* typeof window !== "undefined"
    localStorage,   \* window.localStorage[TOKEN_KEY]: a string, or NoItem
    call,           \* the client operation in progress
    outgoing,       \* the request handed to fetch()
    res,            \* the Response fetch() resolved to
    result,         \* how the operation's promise settled
    dom,            \* object URLs and the link element of apiDownload
    \* ---- route handlers (SpecProxy)
    px,             \* the handler invocation in progress
    upReq,          \* the request the handler sent upstream
    upRes,          \* the upstream's response
    pxOut,          \* what the handler's promise settled to
    relayed         \* body chunks the outgoing response has delivered so far

errVars    == <<errPc, errRes, apiError, clsIn, clsOut>>
clientVars == <<hasWindow, localStorage, call, outgoing, res, result, dom>>
proxyVars  == <<px, upReq, upRes, pxOut, relayed>>
vars       == <<errVars, clientVars, proxyVars>>

None == [t |-> "none"]      \* "no value here yet" (not a JavaScript value)

(***************************************************************************)
(* JavaScript values.  Every value is a record tagged with its typeof (t); *)
(* null is tagged "null" and answers typeof "object" through TypeOf.       *)
(***************************************************************************)
Undefined == [t |-> "undefined"]
Null      == [t |-> "null"]
Str(s)    == [t |-> "string", s |-> s]
Num(n)    == [t |-> "number", n |-> n]
Bool(b)   == [t |-> "boolean", b |-> b]
BigInt(n) == [t |-> "bigint", n |-> n]
Function  == [t |-> "function"]
\* A plain object: its own enumerable properties in insertion order, and
\* whether it refers to itself (JSON.stringify throws on a cycle).
PlainObj(props, circular) ==
    [t |-> "object", class |-> "Object", props |-> props, circular |-> circular]
\* An instance of Error that is not an ApiError (new TypeError(msg), ...).
ErrorObj(name, message) ==
    [t |-> "object", class |-> "Error", name |-> name, message |-> message]

TypeOf(v) == IF v.t = "null" THEN "object" ELSE v.t

\* ToBoolean: the falsy values are undefined, null, "", 0 and false.
Truthy(v) ==
    CASE v.t = "undefined" -> FALSE
      [] v.t = "null"      -> FALSE
      [] v.t = "string"    -> v.s # ""
      [] v.t = "number"    -> v.n # 0
      [] v.t = "bigint"    -> v.n # 0
      [] v.t = "boolean"   -> v.b
      [] OTHER             -> TRUE

\* a || b
OrElse(a, b) == IF Truthy(a) THEN a ELSE b

Digit(d) ==
    CASE d = 0 -> "0" [] d = 1 -> "1" [] d = 2 -> "2" [] d = 3 -> "3"
      [] d = 4 -> "4" [] d = 5 -> "5" [] d = 6 -> "6" [] d = 7 -> "7"
      [] d = 8 -> "8" [] d = 9 -> "9"

RECURSIVE NumToStr(_)
NumToStr(n) == IF n < 10 THEN Digit(n) ELSE NumToStr(n \div 10) \o Digit(n % 10)

\* ToString of ECMAScript, as the Error constructor and template literals apply it.
JSToString(v) ==
    CASE v.t = "undefined" -> "undefined"
      [] v.t = "null"      -> "null"
      [] v.t = "string"    -> v.s
      [] v.t = "number"    -> NumToStr(v.n)
      [] v.t = "bigint"    -> NumToStr(v.n)
      [] v.t = "boolean"   -> IF v.b THEN "true" ELSE "false"
      [] v.t = "function"  -> "function () { [native code] }"
      [] v.class = "Object" -> "[object Object]"
      [] OTHER             -> v.name \o ": " \o v.message

\* "key" in v, for an object v.
HasProp(v, key) ==
    /\ v.t = "object"
    /\ \/ v.class = "Object" /\ \E i \in 1..Len(v.props) : v.props[i][1] = key
       \/ v.class # "Object" /\ key \in {"name", "message"}

\* v?.key : undefined for null, undefined and every primitive of the model.
GetProp(v, key) ==
    IF ~HasProp(v, key) THEN Undefined
    ELSE IF v.class = "Object"
         THEN v.props[CHOOSE i \in 1..Len(v.props) : v.props[i][1] = key][2]
         ELSE IF key = "name" THEN Str(v.name) ELSE Str(v.message)

(***************************************************************************)
(* JSON.stringify and JSON.parse.  JSONText(v) is the text of a value that *)
(* has one; Stringify adds the cases without a text: undefined and         *)
(* functions give undefined, a BigInt or a cycle throws.                   *)
(***************************************************************************)
RECURSIVE JSONText(_)
RECURSIVE JSONMembers(_, _)
\* the members of an object's text: properties whose value is undefined or a
\* function are left out
JSONMembers(props, first) ==
    IF props = <<>> THEN ""
    ELSE LET p == Head(props) IN
         IF p[2].t \in {"undefined", "function"}
         THEN JSONMembers(Tail(props), first)
         ELSE (IF first THEN "" ELSE ",") \o "\"" \o p[1] \o "\":" \o JSONText(p[2])
              \o JSONMembers(Tail(props), FALSE)

JSONText(v) ==
    CASE v.t = "null"    -> "null"
      [] v.t = "string"  -> "\"" \o v.s \o "\""
      [] v.t = "number"  -> NumToStr(v.n)
      [] v.t = "boolean" -> IF v.b THEN "true" ELSE "false"
      [] v.t = "object"  -> "{" \o JSONMembers(v.props, TRUE) \o "}"

RECURSIVE StringifyThrows(_)
StringifyThrows(v) ==
    \/ v.t = "bigint"
    \/ /\ v.t = "object"
       /\ v.class = "Object"
       /\ \/ v.circular
          \/ \E i \in 1..Len(v.props) : StringifyThrows(v.props[i][2])

\* JSON.stringify(v): [ok |-> FALSE] when it throws
Stringify(v) ==
    IF StringifyThrows(v) THEN [ok |-> FALSE, value |-> Undefined]
    ELSE IF v.t \in {"undefined", "function"} THEN [ok |-> TRUE, value |-> Undefined]
    ELSE IF v.t = "object" /\ v.class # "Object"
         THEN [ok |-> TRUE, value |-> Str("{}")]     \* an Error has no enumerable own property
    ELSE [ok |-> TRUE, value |-> Str(JSONText(v))]

\* The documents JSON.parse knows in this model: the error bodies a backend
\* sends ({detail?, message?}) and a few documents that are not objects.
DetailVals  == {Str(""), Str("Not found"), Num(0), Num(7), Bool(FALSE), Null,
                PlainObj(<< <<"loc", Str("body")>> >>, FALSE)}
MessageVals == {Str(""), Str("Bad request"), Num(0), Num(9), Null}
ErrorBodies ==
    {PlainObj(<<>>, FALSE)}
    \cup {PlainObj(<< <<"detail", d>> >>, FALSE) : d \in DetailVals}
    \cup {PlainObj(<< <<"message", m>> >>, FALSE) : m \in MessageVals}
    \cup {PlainObj(<< <<"detail", d>>, <<"message", m>> >>, FALSE) :
             d \in DetailVals, m \in MessageVals}
JsonDocs == ErrorBodies \cup {Null, Num(5), Bool(FALSE), Str("oops"),
                               PlainObj(<< <<"a", Num(1)>> >>, FALSE)}
\* Body texts that are not JSON: empty, HTML, plain text, cut-off JSON.
NonJsonTexts == {"", "<html>Bad Gateway</html>", "Internal Server Error", "{\"detail\":"}
BodyTexts == {JSONText(v) : v \in JsonDocs} \cup NonJsonTexts

\* JSON.parse(text): [ok |-> FALSE] for the SyntaxError
ParseJSON(text) ==
    IF \E v \in JsonDocs : JSONText(v) = text
    THEN [ok |-> TRUE, value |-> CHOOSE v \in JsonDocs : JSONText(v) = text]
    ELSE [ok |-> FALSE, value |-> Undefined]

(***************************************************************************)
(* A fetch Response as the client reads it: status, statusText, headers (a *)
(* Headers object: lower-case name -> value), the body's text, and whether *)
(* reading the body stream fails (the connection drops mid-body).          *)
(***************************************************************************)
NoHeaders == [n \in {} |-> ""]

\* headers.get(name): null when the header is absent
HeaderGet(headers, name) ==
    IF name \in DOMAIN headers THEN Str(headers[name]) ELSE Null

\* Response.ok
Ok(r) == r.status >= 200 /\ r.status <= 299

\* await res.text()
ReadText(r) ==
    IF r.bodyFails THEN [ok |-> FALSE, value |-> Undefined]
    ELSE [ok |-> TRUE, value |-> Str(r.text)]

\* await res.json()
ReadJson(r) ==
    IF r.bodyFails THEN [ok |-> FALSE, value |-> Undefined] ELSE ParseJSON(r.text)

\* contentType.includes("application/json"), over the content types of the model
IncludesJson(ct) == ct \in {"application/json", "application/json; charset=utf-8"}

(***************************************************************************)
(* errors.ts                                                               *)
(***************************************************************************)
\* new ApiError(message, status, details): super(message) stores ToString(message)
NewApiError(message, status, details) ==
    [t |-> "object", class |-> "ApiError", name |-> "ApiError",
     message |-> JSToString(message), status |-> status, details |-> details]

\* `API ${res.status}: ${res.statusText}`
DefaultMessage(r) == "API " \o NumToStr(r.status) \o ": " \o r.statusText

\* A slip fromResponse could make: `message` preferred over `detail`.
FromResponseMessageFirst(r) ==
    LET dflt == Str(DefaultMessage(r))
        ct   == OrElse(HeaderGet(r.headers, "content-type"), Str("")).s
    IN  IF IncludesJson(ct)
        THEN LET j == ReadJson(r) IN
             IF j.ok
             THEN NewApiError(OrElse(OrElse(GetProp(j.value, "message"),
                                            GetProp(j.value, "detail")), dflt),
                              r.status, j.value)
             ELSE NewApiError(dflt, r.status, Undefined)
        ELSE LET x == ReadText(r) IN
             IF x.ok
             THEN NewApiError(OrElse(x.value, dflt), r.status, x.value)
             ELSE NewApiError(dflt, r.status, Undefined)

\* ApiError.fromResponse(res)
FromResponse(r) ==
    LET dflt == Str(DefaultMessage(r))
        ct   == OrElse(HeaderGet(r.headers, "content-type"), Str("")).s
    IN  IF IncludesJson(ct)
        THEN LET j == ReadJson(r) IN
             IF j.ok
             THEN NewApiError(OrElse(OrElse(GetProp(j.value, "detail"),
                                            GetProp(j.value, "message")), dflt),
                              r.status, j.value)
             ELSE NewApiError(dflt, r.status, Undefined)      \* catch {}
        ELSE LET x == ReadText(r) IN
             IF x.ok
             THEN NewApiError(OrElse(x.value, dflt), r.status, x.value)
             ELSE NewApiError(dflt, r.status, Undefined)      \* catch {}

\* The fallback string of handleApiError (the source has the Russian word for
\* "Error" in Cyrillic letters; it is transliterated here).
FallbackMessage == "Oshibka"

Return(v) == [kind |-> "return", value |-> v]
Throw(v)  == [kind |-> "throw", value |-> v]

InstanceOfApiError(v) == v.t = "object" /\ v.class = "ApiError"
InstanceOfError(v)    == v.t = "object" /\ v.class \in {"Error", "ApiError"}

\* handleApiError(error)
HandleApiError(error) ==
    IF InstanceOfApiError(error) THEN Return(Str(error.message))
    ELSE IF InstanceOfError(error) THEN Return(Str(error.message))
    ELSE IF TypeOf(error) = "string" THEN Return(error)
    ELSE IF Truthy(error) /\ TypeOf(error) = "object" /\ HasProp(error, "message")
         THEN LET m == GetProp(error, "message") IN
              Return(IF TypeOf(m) = "string" THEN m ELSE Str(FallbackMessage))
    ELSE LET s == Stringify(error) IN
         IF s.ok THEN Return(s.value) ELSE Return(Str(FallbackMessage))

(***************************************************************************)
(* SpecErrors: errors.ts on its own.  A failed response is handed to       *)
(* fromResponse, and a thrown value (that ApiError or any other) to        *)
(* handleApiError.                                                         *)
(***************************************************************************)
StatusText(status) ==
    CASE status = 200 -> "OK"
      [] status = 204 -> "No Content"
      [] status = 304 -> "Not Modified"
      [] status = 400 -> "Bad Request"
      [] status = 404 -> "Not Found"
      [] status = 422 -> "Unprocessable Entity"
      [] status = 500 -> "Internal Server Error"
      [] status = 502 -> "Bad Gateway"

ContentTypes == {"application/json", "application/json; charset=utf-8",
                 "text/plain", "text/html"}

\* statusText is the reason phrase, or empty (HTTP/2 has none)
ResponsesOf(statuses, headerSets, texts) ==
    {[status |-> s, statusText |-> st, headers |-> h, text |-> x, bodyFails |-> f] :
        s \in statuses, st \in {"", "reason"}, h \in headerSets, x \in texts,
        f \in BOOLEAN}

WithReason(r) ==
    [r EXCEPT !.statusText = IF @ = "reason" THEN StatusText(r.status) ELSE ""]

ContentTypeHeaders == {NoHeaders} \cup {[n \in {"content-type"} |-> c] : c \in ContentTypes}

FailedResponses ==
    {WithReason(r) : r \in ResponsesOf({304, 400, 404, 422, 500, 502},
                                       ContentTypeHeaders, BodyTexts)}

ThrownValues ==
    { ErrorObj("TypeError", "Failed to fetch"),
      ErrorObj("SyntaxError", "Unexpected token < in JSON at position 0"),
      Str("Y"), Str(""),
      PlainObj(<< <<"message", Str("Z")>> >>, FALSE),
      PlainObj(<< <<"message", Str("M")>> >>, TRUE),
      PlainObj(<< <<"message", Num(5)>> >>, FALSE),
      PlainObj(<< <<"message", Null>> >>, FALSE),
      PlainObj(<< <<"code", Num(1)>> >>, FALSE),
      PlainObj(<< <<"code", Num(1)>>, <<"hint", Undefined>> >>, FALSE),
      PlainObj(<< <<"n", BigInt(1)>> >>, FALSE),
      PlainObj(<<>>, TRUE),
      Undefined, Null, Num(42), Num(0), Bool(FALSE), Bool(TRUE), BigInt(1), Function }

ErrIdle ==
    /\ errPc = "idle"
    /\ errRes = None
    /\ apiError = None
    /\ clsIn = None
    /\ clsOut = None

\* const e = await ApiError.fromResponse(r)
ErrConstruct ==
    /\ errPc = "idle"
    /\ \E r \in FailedResponses :
         /\ errRes' = r
         /\ apiError' = FromResponse(r)
    /\ errPc' = "constructed"
    /\ UNCHANGED <<clsIn, clsOut, clientVars, proxyVars>>

\* handleApiError(v), v the ApiError just built or any other thrown value
ErrClassify ==
    /\ errPc \in {"idle", "constructed"}
    /\ \E v \in ThrownValues \cup (IF errPc = "constructed" THEN {apiError} ELSE {}) :
         /\ clsIn' = v
         /\ clsOut' = HandleApiError(v)
    /\ errPc' = "classified"
    /\ UNCHANGED <<errRes, apiError, clientVars, proxyVars>>

ErrReset ==
    /\ errPc = "classified"
    /\ errPc' = "idle"
    /\ errRes' = None
    /\ apiError' = None
    /\ clsIn' = None
    /\ clsOut' = None
    /\ UNCHANGED <<clientVars, proxyVars>>

(***************************************************************************)
(* HTTP headers.  A Headers object maps lower-case names to values; a      *)
(* plain record (and mergeHeaders' `out`) keeps its keys as written, in    *)
(* insertion order.                                                        *)
(***************************************************************************)
\* the byte-lowercase of a header name, over the names of the model
Lower(name) ==
    CASE name \in {"Content-Type", "content-type", "CONTENT-TYPE"} -> "content-type"
      [] name \in {"Authorization", "authorization"}                -> "authorization"
      [] name \in {"X-Custom", "x-custom"}                          -> "x-custom"
      [] name \in {"Content-Encoding", "content-encoding"}          -> "content-encoding"
      [] name \in {"Content-Disposition", "content-disposition"}    -> "content-disposition"
      [] name \in {"Content-Length", "content-length"}              -> "content-length"
      [] name \in {"Cookie", "cookie"}                              -> "cookie"

\* Headers iterates its entries sorted by name
SortedHeaderNames ==
    <<"authorization", "content-disposition", "content-encoding", "content-length",
      "content-type", "cookie", "x-custom">>

HeadersHas(h, name) == Lower(name) \in DOMAIN h

\* headers.append(name, value): values of one name are joined with ", "
HeadersAppend(h, name, value) ==
    LET k == Lower(name) IN
    IF k \in DOMAIN h THEN [h EXCEPT ![k] = @ \o ", " \o value]
    ELSE [x \in DOMAIN h \cup {k} |-> IF x = k THEN value ELSE h[x]]

\* headers.set(name, value)
HeadersSet(h, name, value) ==
    LET k == Lower(name) IN
    [x \in DOMAIN h \cup {k} |-> IF x = k THEN value ELSE h[x]]

\* headers.delete(name)
HeadersDelete(h, name) == [x \in DOMAIN h \ {Lower(name)} |-> h[x]]

\* the entries of a Headers object in iteration order, as <<name, value>>
HeadersEntries(h) ==
    LET ks == SelectSeq(SortedHeaderNames, LAMBDA k : k \in DOMAIN h)
    IN  [i \in 1..Len(ks) |-> <<ks[i], h[ks[i]]>>]

\* HeadersInit: undefined, an array of pairs, a plain record, or a Headers object
NoInit            == [form |-> "undefined"]
ArrayInit(e)      == [form |-> "array", entries |-> e]
RecordInit(e)     == [form |-> "record", entries |-> e]
HeadersInitOf(h)  == [form |-> "Headers", headers |-> h]

InitEntries(a) ==
    CASE a.form = "undefined" -> <<>>
      [] a.form = "Headers"   -> HeadersEntries(a.headers)
      [] OTHER                -> a.entries

RECURSIVE AppendAll(_, _)
AppendAll(h, e) ==
    IF e = <<>> THEN h
    ELSE AppendAll(HeadersAppend(h, Head(e)[1], Head(e)[2]), Tail(e))

\* new Headers(init), which fetch() also applies to init.headers
NewHeaders(a) == AppendAll(NoHeaders, InitEntries(a))

\* out[k] = v on a plain record: a key already there keeps its place
RecordPut(out, k, v) ==
    IF \E i \in 1..Len(out) : out[i][1] = k
    THEN [i \in 1..Len(out) |-> IF out[i][1] = k THEN <<k, v>> ELSE out[i]]
    ELSE Append(out, <<k, v>>)

RECURSIVE RecordAssign(_, _)
\* Object.assign(out, e), and the loops of mergeHeaders that do out[k] = v
RecordAssign(out, e) ==
    IF e = <<>> THEN out
    ELSE RecordAssign(RecordPut(out, Head(e)[1], Head(e)[2]), Tail(e))

(***************************************************************************)
(* api.ts                                                                  *)
(***************************************************************************)
\* A slip the token store could make: reading another key (TABLE_KEY), which
\* holds no token.
GetTokenWrongKey == Null

\* getToken()
GetToken == IF ~hasWindow THEN Null ELSE localStorage

\* mergeHeaders(a, b): a record; the three forms of `a` all end in out[k] = v
MergeHeaders(a, b) == RecordInit(RecordAssign(RecordAssign(<<>>, InitEntries(a)), b))

\* the headers request() injects
Injected(token) ==
    << <<"Content-Type", "application/json">> >>
    \o (IF Truthy(token) THEN << <<"Authorization", "Bearer " \o token.s>> >> ELSE <<>>)

\* request(path, options): what it hands to fetch()
Request(init) ==
    LET token == GetToken IN
    [headers     |-> NewHeaders(MergeHeaders(init, Injected(token))),
     cache       |-> "no-store",
     credentials |-> "same-origin"]

\* apiFetch(path, init): what it hands to fetch()
ApiFetchRequest(init) ==
    LET headers == NewHeaders(init)
        token   == GetToken
    IN  [headers     |-> IF Truthy(token) /\ ~HeadersHas(headers, "authorization")
                         THEN HeadersSet(headers, "authorization", "Bearer " \o token.s)
                         ELSE headers,
         cache       |-> "default",
         credentials |-> "omit"]

\* A slip the wrappers could make: only server errors count as failures.
FailedOnlyServerErrors(r) == r.status >= 500

\* if (!res.ok)
Failed(r) == ~Ok(r)

\* /filename="([^"]+)"/i.exec(disposition), over the dispositions of the model:
\* the captured name, or null when there is no match
FilenameMatch(disposition) ==
    CASE disposition = "attachment; filename=\"report.csv\"" -> Str("report.csv")
      [] disposition = "attachment; FILENAME=\"r.bin\""       -> Str("r.bin")
      [] OTHER                                               -> Null

\* the filename apiDownload gives the link
DownloadFilename(r, fallbackFilename) ==
    LET disposition == OrElse(HeaderGet(r.headers, "content-disposition"), Str("")).s
        m           == FilenameMatch(disposition)
    IN  IF Truthy(m) THEN m ELSE OrElse(fallbackFilename, Str("export.bin"))

(***************************************************************************)
(* SpecClient: the operations of api.ts, one at a time, with setToken and  *)
(* clearToken free to run at any await.                                    *)
(***************************************************************************)
MaxCallerHeaders == 2       \* how many headers a caller passes at most

Tokens == {"", "abc", "t2"}

CallerPairs ==
    { <<"Content-Type", "text/plain">>, <<"content-type", "text/csv">>,
      <<"Authorization", "Basic QQ==">>, <<"authorization", "Bearer other">>,
      <<"X-Custom", "1">> }

CallerEntries == UNION {[1..k -> CallerPairs] : k \in 0..MaxCallerHeaders}

DistinctKeys(e) == \A i, j \in 1..Len(e) : i # j => e[i][1] # e[j][1]

CallerInits ==
    {NoInit}
    \cup {ArrayInit(e) : e \in CallerEntries}
    \cup {RecordInit(e) : e \in {x \in CallerEntries : DistinctKeys(x)}}
    \cup {HeadersInitOf(NewHeaders(ArrayInit(e))) : e \in CallerEntries}

Fallbacks == {Undefined, Str("day.csv")}

ClientHeaderSets ==
    { NoHeaders,
      [n \in {"content-type"} |-> "application/json"],
      [n \in {"content-type"} |-> "text/plain"],
      [n \in {"content-disposition"} |-> "attachment; filename=\"report.csv\""],
      [n \in {"content-disposition"} |-> "attachment"] }

ClientResponses ==
    {[status |-> s, statusText |-> StatusText(s), headers |-> h, text |-> x,
      bodyFails |-> f] :
        s \in {200, 404, 500}, h \in ClientHeaderSets,
        x \in {"{\"detail\":\"Not found\"}", "{\"a\":1}", "<html>Bad Gateway</html>"},
        f \in BOOLEAN}

IdleCall ==
    [op |-> "none", pc |-> "idle", init |-> NoInit, fallback |-> Undefined,
     token |-> Null, transport |-> FALSE, decoded |-> FALSE, blob |-> None]

IdleDom(body) == [body |-> body, url |-> "none", link |-> "none", filename |-> None]

RequestOps == {"apiJson", "apiText", "apiBlob", "apiDownload"}

ClientIdle ==
    /\ hasWindow = FALSE
    /\ localStorage = Null
    /\ call = IdleCall
    /\ outgoing = None
    /\ res = None
    /\ result = None
    /\ dom = IdleDom(FALSE)

\* setToken(token)
SetToken ==
    /\ \E t \in Tokens : localStorage' = IF ~hasWindow THEN localStorage ELSE Str(t)
    /\ UNCHANGED <<hasWindow, call, outgoing, res, result, dom, errVars, proxyVars>>

\* clearToken()
ClearToken ==
    /\ localStorage' = IF ~hasWindow THEN localStorage ELSE Null
    /\ UNCHANGED <<hasWindow, call, outgoing, res, result, dom, errVars, proxyVars>>

\* apiJson / apiText / apiBlob (path, options), up to `await request(...)`
CallWrapper ==
    /\ call.pc = "idle"
    /\ \E op \in {"apiJson", "apiText", "apiBlob"}, init \in CallerInits :
         /\ call' = [call EXCEPT !.op = op, !.pc = "fetch", !.init = init,
                                 !.token = GetToken]
         /\ outgoing' = Request(init)
    /\ UNCHANGED <<hasWindow, localStorage, res, result, dom, errVars, proxyVars>>

\* apiFetch(path, init), up to `await fetch(...)`
CallApiFetch ==
    /\ call.pc = "idle"
    /\ \E init \in CallerInits :
         /\ call' = [call EXCEPT !.op = "apiFetch", !.pc = "fetch", !.init = init,
                                 !.token = GetToken]
         /\ outgoing' = ApiFetchRequest(init)
    /\ UNCHANGED <<hasWindow, localStorage, res, result, dom, errVars, proxyVars>>

\* apiDownload(path, fallbackFilename), up to `await request(path, {method: "GET"})`
CallApiDownload ==
    /\ call.pc = "idle"
    /\ \E fb \in Fallbacks :
         call' = [call EXCEPT !.op = "apiDownload", !.pc = "fetch", !.fallback = fb,
                              !.token = GetToken]
    /\ outgoing' = Request(NoInit)
    /\ UNCHANGED <<hasWindow, localStorage, res, result, dom, errVars, proxyVars>>

\* fetch() rejects: no response was received.  Nothing in api.ts catches it, so
\* the operation's promise rejects with fetch's own TypeError.  (Once fetch()
\* settles, the request and the caller's options are not read again: the model
\* forgets them.)
FetchReject ==
    /\ call.pc = "fetch"
    /\ call' = [call EXCEPT !.pc = "done", !.transport = TRUE, !.init = NoInit]
    /\ outgoing' = None
    /\ result' = Throw(ErrorObj("TypeError", "Failed to fetch"))
    /\ UNCHANGED <<hasWindow, localStorage, res, dom, errVars, proxyVars>>

\* fetch() resolves with a response
FetchResolve ==
    /\ call.pc = "fetch"
    /\ \E r \in ClientResponses : res' = r
    /\ call' = [call EXCEPT !.pc = "response", !.init = NoInit]
    /\ outgoing' = None
    /\ UNCHANGED <<hasWindow, localStorage, result, dom, errVars, proxyVars>>

\* if (!res.ok) throw await ApiError.fromResponse(res)
RaiseApiError ==
    /\ call.pc = "response"
    /\ Failed(res)
    /\ result' = Throw(FromResponse(res))
    /\ call' = [call EXCEPT !.pc = "done"]
    /\ UNCHANGED <<hasWindow, localStorage, outgoing, res, dom, errVars, proxyVars>>

Blob(r) == [t |-> "object", class |-> "Blob", text |-> r.text]

\* await res.blob()
ReadBlob(r) ==
    IF r.bodyFails THEN [ok |-> FALSE, value |-> Undefined]
    ELSE [ok |-> TRUE, value |-> Blob(r)]

\* what a failed body read rejects with: the stream's error, or JSON.parse's
DecodeError(r) ==
    IF r.bodyFails THEN ErrorObj("TypeError", "terminated")
    ELSE ErrorObj("SyntaxError", "Unexpected token < in JSON at position 0")

\* return await res.json() / res.text() / res.blob(): a decode failure propagates
DecodeBody ==
    /\ call.pc = "response"
    /\ call.op \in {"apiJson", "apiText", "apiBlob"}
    /\ ~Failed(res)
    /\ LET d == CASE call.op = "apiJson" -> ReadJson(res)
                  [] call.op = "apiText" -> ReadText(res)
                  [] call.op = "apiBlob" -> ReadBlob(res)
       IN  result' = IF d.ok THEN Return(d.value) ELSE Throw(DecodeError(res))
    /\ call' = [call EXCEPT !.pc = "done", !.decoded = TRUE]
    /\ UNCHANGED <<hasWindow, localStorage, outgoing, res, dom, errVars, proxyVars>>

\* apiFetch: return res
ReturnResponse ==
    /\ call.pc = "response"
    /\ call.op = "apiFetch"
    /\ ~Failed(res)
    /\ result' = Return([t |-> "object", class |-> "Response", status |-> res.status])
    /\ call' = [call EXCEPT !.pc = "done"]
    /\ UNCHANGED <<hasWindow, localStorage, outgoing, res, dom, errVars, proxyVars>>

\* apiDownload: const blob = await res.blob()
DownloadBlob ==
    /\ call.pc = "response"
    /\ call.op = "apiDownload"
    /\ ~Failed(res)
    /\ LET d == ReadBlob(res) IN
       IF d.ok
       THEN /\ call' = [call EXCEPT !.pc = "blob", !.decoded = TRUE, !.blob = d.value]
            /\ UNCHANGED result
       ELSE /\ call' = [call EXCEPT !.pc = "done", !.decoded = TRUE]
            /\ result' = Throw(DecodeError(res))
    /\ UNCHANGED <<hasWindow, localStorage, outgoing, res, dom, errVars, proxyVars>>

\* apiDownload: the filename, URL.createObjectURL(blob), document.createElement("a"),
\* a.href, a.download.  Without a window there is no `document`: createElement
\* throws a ReferenceError after the URL was created.
DownloadCreateLink ==
    /\ call.pc = "blob"
    /\ IF hasWindow
       THEN /\ dom' = [dom EXCEPT !.url = "created", !.link = "created",
                                  !.filename = DownloadFilename(res, call.fallback)]
            /\ call' = [call EXCEPT !.pc = "link"]
            /\ UNCHANGED result
       ELSE /\ dom' = [dom EXCEPT !.url = "created"]
            /\ call' = [call EXCEPT !.pc = "done"]
            /\ result' = Throw(ErrorObj("ReferenceError", "document is not defined"))
    /\ UNCHANGED <<hasWindow, localStorage, outgoing, res, errVars, proxyVars>>

\* apiDownload: document.body.appendChild(a); a.click(); a.remove().  With no
\* <body> yet, document.body is null and appendChild throws a TypeError.
DownloadClick ==
    /\ call.pc = "link"
    /\ IF dom.body
       THEN /\ dom' = [dom EXCEPT !.link = "removed"]
            /\ call' = [call EXCEPT !.pc = "clicked"]
            /\ UNCHANGED result
       ELSE /\ call' = [call EXCEPT !.pc = "done"]
            /\ result' = Throw(ErrorObj("TypeError", "document.body is null"))
            /\ UNCHANGED dom
    /\ UNCHANGED <<hasWindow, localStorage, outgoing, res, errVars, proxyVars>>

\* apiDownload: URL.revokeObjectURL(url), and the function returns
DownloadRevoke ==
    /\ call.pc = "clicked"
    /\ dom' = [dom EXCEPT !.url = "revoked"]
    /\ call' = [call EXCEPT !.pc = "done"]
    /\ result' = Return(Undefined)
    /\ UNCHANGED <<hasWindow, localStorage, outgoing, res, errVars, proxyVars>>

\* the caller has the outcome; the next operation starts from scratch
ClientSettled ==
    /\ call.pc = "done"
    /\ call' = IdleCall
    /\ outgoing' = None
    /\ res' = None
    /\ result' = None
    /\ dom' = IdleDom(dom.body)
    /\ UNCHANGED <<hasWindow, localStorage, errVars, proxyVars>>

(***************************************************************************)
(* The route handlers (part_000: day-summary, "A"; part_001:               *)
(* export-report, "B").  An upstream response carries its body as a stream *)
(* of chunks that may error after `failAt` chunks; the body is null        *)
(* exactly for a null-body status.  Reading a body marks it used, and a    *)
(* used body cannot be read again.                                         *)
(***************************************************************************)
MaxChunks == 2              \* how many chunks an upstream body has at most

RECURSIVE Concat(_)
Concat(chunks) == IF chunks = <<>> THEN "" ELSE Head(chunks) \o Concat(Tail(chunks))

\* the statuses a Response with a body may not have
NullBodyStatus(status) == status \in {101, 103, 204, 205, 304}

\* new Response(body, {status}) / Response.json(data, {status}) throws for a
\* status outside 200..599, and for a body with a null-body status
ResponseInitThrows(status, hasBody) ==
    \/ status < 200
    \/ status > 599
    \/ hasBody /\ NullBodyStatus(status)

\* reading the whole upstream body: [ok |-> FALSE] when it was read before or
\* the stream errors
ReadAll(r, bodyUsed) ==
    IF bodyUsed \/ (r.fails /\ ~r.bodyNull) THEN [ok |-> FALSE, value |-> Undefined]
    ELSE [ok |-> TRUE, value |-> Str(Concat(r.chunks))]

\* the message of the error a failed read rejects with
ReadErrorMessage(r, bodyUsed) ==
    IF bodyUsed THEN "Body is unusable: Body has already been read" ELSE "terminated"

\* the request headers both handlers forward: cookie and authorization only
ForwardHeaders(inbound) ==
    LET cookie        == HeaderGet(inbound, "cookie")
        authorization == HeaderGet(inbound, "authorization")
        h1 == IF Truthy(cookie) THEN HeadersSet(NoHeaders, "cookie", cookie.s)
              ELSE NoHeaders
    IN  IF Truthy(authorization) THEN HeadersSet(h1, "authorization", authorization.s)
        ELSE h1

UpstreamPath(handler) ==
    IF handler = "A" THEN "/api/admin/day-summary" ELSE "/api/admin/export-report"

\* NextResponse.json(data, {status}), given that the status is accepted
JsonResponse(data, status) ==
    [kind |-> "response", status |-> status,
     headers |-> [n \in {"content-type"} |-> "application/json"],
     data |-> data, body |-> JSONText(data), streamed |-> FALSE]

\* A slip the handlers could make: no try/catch, the error escapes.
Rethrow(message) == Throw(ErrorObj("TypeError", message))

\* the outer catch block of both handlers (every error of the model is an Error)
CaughtResponse(message) ==
    JsonResponse(PlainObj(<< <<"error", Str("Internal server error")>>,
                             <<"message", Str(message)>> >>, FALSE), 500)

\* Handler A after fetch resolved: try { data = await res.json() } catch { text... }
HandlerARespond(r) ==
    LET j    == ReadAll(r, FALSE)
        data == IF j.ok THEN ParseJSON(j.value.s) ELSE [ok |-> FALSE, value |-> Undefined]
        used == ~r.bodyNull                       \* res.json() consumed the body
    IN  IF data.ok
        THEN IF ResponseInitThrows(r.status, TRUE)
             THEN CaughtResponse("Invalid response status code")
             ELSE JsonResponse(data.value, r.status)
        ELSE LET text == ReadAll(r, used) IN
             IF ~text.ok THEN CaughtResponse(ReadErrorMessage(r, used))
             ELSE IF ResponseInitThrows(r.status, TRUE)
                  THEN CaughtResponse("Invalid response status code")
                  ELSE JsonResponse(PlainObj(<< <<"error", Str("Failed to parse response")>>,
                                                <<"details", text.value>> >>, FALSE),
                                    r.status)

\* A slip Handler B could make: the upstream headers copied as they are.
OutHeadersKeepAll(r) == NewHeaders(HeadersInitOf(r.headers))

\* Handler B: const outHeaders = new Headers(res.headers); outHeaders.delete(...)
OutHeaders(r) == HeadersDelete(NewHeaders(HeadersInitOf(r.headers)), "content-encoding")

\* Handler B after fetch resolved: new NextResponse(res.body, {status, headers})
HandlerBRespond(r) ==
    IF ResponseInitThrows(r.status, ~r.bodyNull)
    THEN CaughtResponse("Invalid response status code")
    ELSE [kind |-> "response", status |-> r.status, headers |-> OutHeaders(r),
          data |-> Undefined, body |-> "", streamed |-> TRUE]

(***************************************************************************)
(* SpecProxy: one invocation of a handler at a time.                       *)
(***************************************************************************)
InboundHeaders ==
    {[n \in S |-> CASE n = "cookie" -> "sid=1"
                    [] n = "authorization" -> "Bearer abc"
                    [] n = "x-custom" -> "1"] :
        S \in SUBSET {"cookie", "authorization", "x-custom"}}
    \cup {[n \in {"cookie"} |-> ""]}

Searches == {"", "?date=2024-01-01"}

ChunkVals == {"{\"a\"", ":1}", "{\"a\":1}", "<html>Bad Gateway</html>"}

ChunkSeqs == UNION {[1..k -> ChunkVals] : k \in 0..MaxChunks}

UpstreamHeaderSets ==
    { NoHeaders,
      [n \in {"content-type"} |-> "application/json"],
      [n \in {"content-type", "content-encoding"} |->
          IF n = "content-type" THEN "application/json" ELSE "gzip"],
      [n \in {"content-disposition", "content-encoding"} |->
          IF n = "content-encoding" THEN "gzip" ELSE "attachment; filename=\"report.csv\""] }

UpstreamResponses ==
    {[status |-> s, headers |-> h, chunks |-> c, bodyNull |-> FALSE, fails |-> FALSE,
      failAt |-> 0] : s \in {200, 404, 502}, h \in UpstreamHeaderSets, c \in ChunkSeqs}
    \cup
    {[status |-> s, headers |-> h, chunks |-> c, bodyNull |-> FALSE, fails |-> TRUE,
      failAt |-> k] : s \in {200, 404, 502}, h \in UpstreamHeaderSets,
                      c \in ChunkSeqs, k \in 0..MaxChunks}
    \cup
    {[status |-> 204, headers |-> h, chunks |-> <<>>, bodyNull |-> TRUE, fails |-> FALSE,
      failAt |-> 0] : h \in UpstreamHeaderSets}

IdlePx ==
    [handler |-> "none", pc |-> "idle", inbound |-> NoHeaders, search |-> "",
     transport |-> "none", stream |-> "none"]

ProxyIdle ==
    /\ px = IdlePx
    /\ upReq = None
    /\ upRes = None
    /\ pxOut = None
    /\ relayed = <<>>

\* GET(request), up to `await fetch(target, {method, headers, cache})`
PxInvoke ==
    /\ px.pc = "idle"
    /\ \E handler \in {"A", "B"}, inbound \in InboundHeaders, search \in Searches :
         /\ px' = [px EXCEPT !.handler = handler, !.pc = "fetch", !.inbound = inbound,
                             !.search = search]
         /\ upReq' = [url |-> UpstreamPath(handler) \o search, method |-> "GET",
                      headers |-> ForwardHeaders(inbound), cache |-> "no-store"]
    /\ UNCHANGED <<upRes, pxOut, relayed, errVars, clientVars>>

\* fetch() rejects (network error, timeout): the outer catch answers
PxFetchReject ==
    /\ px.pc = "fetch"
    /\ px' = [px EXCEPT !.pc = "done", !.transport = "fetch"]
    /\ pxOut' = CaughtResponse("fetch failed")
    /\ UNCHANGED <<upReq, upRes, relayed, errVars, clientVars>>

\* fetch() resolves with the upstream's response
PxFetchResolve ==
    /\ px.pc = "fetch"
    /\ \E r \in UpstreamResponses :
         /\ r.fails => r.failAt <= Len(r.chunks)
         /\ upRes' = r
    /\ px' = [px EXCEPT !.pc = "response"]
    /\ UNCHANGED <<upReq, pxOut, relayed, errVars, clientVars>>

\* Handler A: the rest of the handler; its response is buffered
PxRespondA ==
    /\ px.pc = "response"
    /\ px.handler = "A"
    /\ pxOut' = HandlerARespond(upRes)
    /\ px' = [px EXCEPT !.pc = "done",
                        !.transport = IF upRes.fails /\ ~upRes.bodyNull THEN "body" ELSE @]
    /\ UNCHANGED <<upReq, upRes, relayed, errVars, clientVars>>

\* Handler B: the rest of the handler; it returns before the body is relayed
PxRespondB ==
    /\ px.pc = "response"
    /\ px.handler = "B"
    /\ pxOut' = HandlerBRespond(upRes)
    /\ px' = [px EXCEPT !.pc = IF HandlerBRespond(upRes).streamed THEN "streaming"
                                ELSE "done",
                        !.stream = IF HandlerBRespond(upRes).streamed THEN "open" ELSE @]
    /\ UNCHANGED <<upReq, upRes, relayed, errVars, clientVars>>

\* the runtime pipes the next upstream chunk into the outgoing response
RelayChunk ==
    /\ px.pc = "streaming"
    /\ Len(relayed) < Len(upRes.chunks)
    /\ ~(upRes.fails /\ Len(relayed) = upRes.failAt)
    /\ relayed' = Append(relayed, upRes.chunks[Len(relayed) + 1])
    /\ UNCHANGED <<px, upReq, upRes, pxOut, errVars, clientVars>>

\* the upstream body ends: the outgoing response ends
StreamClose ==
    /\ px.pc = "streaming"
    /\ Len(relayed) = Len(upRes.chunks)
    /\ ~upRes.fails
    /\ px' = [px EXCEPT !.pc = "done", !.stream = "closed"]
    /\ UNCHANGED <<upReq, upRes, pxOut, relayed, errVars, clientVars>>

\* the upstream body errors after the handler returned: the outgoing response,
\* whose status and headers are already sent, is aborted
StreamError ==
    /\ px.pc = "streaming"
    /\ upRes.fails
    /\ Len(relayed) = upRes.failAt
    /\ px' = [px EXCEPT !.pc = "done", !.stream = "errored", !.transport = "body"]
    /\ UNCHANGED <<upReq, upRes, pxOut, relayed, errVars, clientVars>>

\* the invocation is over
PxSettled ==
    /\ px.pc = "done"
    /\ px' = IdlePx
    /\ upReq' = None
    /\ upRes' = None
    /\ pxOut' = None
    /\ relayed' = <<>>
    /\ UNCHANGED <<errVars, clientVars>>

(***************************************************************************)
(* The specifications.                                                     *)
(***************************************************************************)
InitErrors == ErrIdle /\ ClientIdle /\ ProxyIdle

NextErrors == ErrConstruct \/ ErrClassify \/ ErrReset

SpecErrors == InitErrors /\ [][NextErrors]_vars

InitClient ==
    /\ ErrIdle
    /\ ProxyIdle
    /\ hasWindow \in BOOLEAN
    /\ localStorage = Null
    /\ call = IdleCall
    /\ outgoing = None
    /\ res = None
    /\ result = None
    /\ dom \in {IdleDom(b) : b \in BOOLEAN}

NextClient ==
    \/ SetToken
    \/ ClearToken
    \/ CallWrapper
    \/ CallApiFetch
    \/ CallApiDownload
    \/ FetchReject
    \/ FetchResolve
    \/ RaiseApiError
    \/ DecodeBody
    \/ ReturnResponse
    \/ DownloadBlob
    \/ DownloadCreateLink
    \/ DownloadClick
    \/ DownloadRevoke
    \/ ClientSettled

SpecClient == InitClient /\ [][NextClient]_vars

InitProxy == ErrIdle /\ ClientIdle /\ ProxyIdle

NextProxy ==
    \/ PxInvoke
    \/ PxFetchReject
    \/ PxFetchResolve
    \/ PxRespondA
    \/ PxRespondB
    \/ RelayChunk
    \/ StreamClose
    \/ StreamError
    \/ PxSettled

SpecProxy == InitProxy /\ [][NextProxy]_vars

(***************************************************************************)
(* The claims.                                                             *)
(***************************************************************************)

\* ---------------------------------------------------------------- C1
\* the payload Handler A is said to answer with when the body is not JSON
ParseFailurePayload(text) ==
    PlainObj(<< <<"error", Str("Failed to parse response")>>,
                <<"details", Str(text)>> >>, FALSE)

\* C1: Handler A, for every upstream response whose body arrived and is not
\* valid JSON, answers with the upstream's status and the payload
\* {error: "Failed to parse response", details: <the body text>}.
C1_ParseFailureRelayed ==
    (/\ px.handler = "A"
     /\ px.pc = "done"
     /\ upRes # None
     /\ ~upRes.fails
     /\ ~ParseJSON(Concat(upRes.chunks)).ok)
    => /\ pxOut.kind = "response"
       /\ pxOut.status = upRes.status
       /\ pxOut.data = ParseFailurePayload(Concat(upRes.chunks))

\* ---------------------------------------------------------------- C2
\* C2: once a client operation has a response whose status is not a success,
\* it never returns a value, never decodes the body as the caller asked,
\* never creates an object URL or a link, and it ends by throwing an ApiError
\* whose status is the response's.
C2_FailedStatusRaises ==
    (res # None /\ ~Ok(res))
    => /\ call.pc \in {"response", "done"}
       /\ ~call.decoded
       /\ dom.url = "none"
       /\ dom.link = "none"
       /\ call.pc = "response" => result = None
       /\ call.pc = "done" =>
            /\ result.kind = "throw"
            /\ InstanceOfApiError(result.value)
            /\ result.value.status = res.status

\* apiDownload met a 404 and threw the ApiError
C2_Witness ==
    /\ call.op = "apiDownload"
    /\ call.pc = "done"
    /\ res # None
    /\ res.status = 404
    /\ result.kind = "throw"
    /\ InstanceOfApiError(result.value)

\* ---------------------------------------------------------------- C3
\* fromResponse was given a response with status >= 400 and a JSON content
\* type, and its body was read and parsed
C3_Case ==
    /\ errRes # None
    /\ errRes.status >= 400
    /\ "content-type" \in DOMAIN errRes.headers
    /\ IncludesJson(errRes.headers["content-type"])
    /\ ~errRes.bodyFails
    /\ ParseJSON(errRes.text).ok

C3_Json == ParseJSON(errRes.text).value

\* C3 as claimed: the message is the `detail` whenever the body has one
\* (whatever its value), else the `message` when the body has one, else
\* "API {status}: {statusText}".
C3_DetailAlwaysWins ==
    C3_Case =>
       /\ HasProp(C3_Json, "detail") =>
            Str(apiError.message) = GetProp(C3_Json, "detail")
       /\ (~HasProp(C3_Json, "detail") /\ HasProp(C3_Json, "message")) =>
            Str(apiError.message) = GetProp(C3_Json, "message")
       /\ (~HasProp(C3_Json, "detail") /\ ~HasProp(C3_Json, "message")) =>
            apiError.message = DefaultMessage(errRes)

\* C3 as amended: the message is the string form of the `detail` when the
\* detail is truthy; else the string form of the `message` when that is
\* truthy; else "API {status}: {statusText}".  The status and the parsed body
\* are kept on the error.
C3_TruthyDetailWins ==
    C3_Case =>
       LET d == GetProp(C3_Json, "detail")
           m == GetProp(C3_Json, "message")
       IN  /\ Truthy(d) => apiError.message = JSToString(d)
           /\ (~Truthy(d) /\ Truthy(m)) => apiError.message = JSToString(m)
           /\ (~Truthy(d) /\ ~Truthy(m)) => apiError.message = DefaultMessage(errRes)
           /\ apiError.status = errRes.status
           /\ apiError.details = C3_Json

\* an empty detail beside a message: the message is used
C3_Witness ==
    /\ errPc = "constructed"
    /\ C3_Case
    /\ GetProp(C3_Json, "detail") = Str("")
    /\ GetProp(C3_Json, "message") = Str("Bad request")
    /\ apiError.message = "Bad request"

\* ---------------------------------------------------------------- C4
\* a step in which an operation hands its request to fetch()
C4_Issues == call.pc = "idle" /\ call'.pc = "fetch"

C4_NoCallerAuthorization(init) == ~HeadersHas(NewHeaders(init), "authorization")

C4_Bearer(headers, token) ==
    /\ "authorization" \in DOMAIN headers
    /\ headers["authorization"] = "Bearer " \o token

\* C4 as claimed: in a browser, a request issued without a caller's
\* Authorization header carries "Bearer <t>" for the stored token t, for
\* every string t, and carries no Authorization header when none is stored.
C4_EveryTokenSent ==
    [][(C4_Issues /\ hasWindow /\ C4_NoCallerAuthorization(call'.init)) =>
          IF localStorage # Null
          THEN C4_Bearer(outgoing'.headers, localStorage.s)
          ELSE "authorization" \notin DOMAIN outgoing'.headers]_vars

\* C4 as amended: the same for every non-empty token; with no token or the
\* empty string stored, no Authorization header is injected.
C4_NonEmptyTokenSent ==
    [][(C4_Issues /\ hasWindow /\ C4_NoCallerAuthorization(call'.init)) =>
          IF localStorage # Null /\ localStorage.s # ""
          THEN C4_Bearer(outgoing'.headers, localStorage.s)
          ELSE "authorization" \notin DOMAIN outgoing'.headers]_vars

\* a request in flight that carries the stored token "abc"
C4_Witness ==
    /\ hasWindow
    /\ call.pc = "fetch"
    /\ C4_NoCallerAuthorization(call.init)
    /\ localStorage = Str("abc")
    /\ C4_Bearer(outgoing.headers, "abc")

\* ---------------------------------------------------------------- C5
\* C5: a request built by request() carries exactly the injected Content-Type
\* and, with a token, exactly the injected Authorization, whatever the form
\* and letter case of the caller's headers; the caller's other headers pass
\* through unchanged.
C5_InjectedHeadersWin ==
    (call.pc = "fetch" /\ call.op \in RequestOps) =>
       LET caller == NewHeaders(call.init) IN
       /\ "content-type" \in DOMAIN outgoing.headers
       /\ outgoing.headers["content-type"] = "application/json"
       /\ Truthy(call.token) => C4_Bearer(outgoing.headers, call.token.s)
       /\ \A k \in DOMAIN caller \ {"content-type", "authorization"} :
             /\ k \in DOMAIN outgoing.headers
             /\ outgoing.headers[k] = caller[k]

\* ---------------------------------------------------------------- C6
\* C6: in a browser, apiDownload never ends with an object URL created and
\* not revoked.
C6_UrlAlwaysRevoked == (hasWindow /\ call.pc = "done") => dom.url # "created"

\* ---------------------------------------------------------------- C7
\* C7: a client operation whose fetch failed before any response ends by
\* throwing an ApiError with status 0.
C7_TransportFailureIsApiError ==
    (call.pc = "done" /\ call.transport) =>
       /\ result.kind = "throw"
       /\ InstanceOfApiError(result.value)
       /\ result.value.status = 0

\* ---------------------------------------------------------------- C8
\* the {error, message} answer with status 500
IsInternalError(out) ==
    /\ out.kind = "response"
    /\ out.status = 500
    /\ HasProp(out.data, "error")
    /\ HasProp(out.data, "message")
    /\ out.body = JSONText(out.data)

\* C8 as claimed: a handler never ends with an exception, and every transport
\* failure, while calling upstream or while reading or relaying the body, is
\* answered with {error, message} and status 500.
C8_EveryFailureIs500 ==
    /\ px.pc \in {"streaming", "done"} => (pxOut # None /\ pxOut.kind = "response")
    /\ px.transport # "none" => IsInternalError(pxOut)

\* C8 as amended: a handler never ends with an exception; a failure of the
\* call to upstream, and in Handler A a failure while reading the body, is
\* answered with {error, message} and status 500.
C8_FailureBeforeReturnIs500 ==
    /\ px.pc \in {"streaming", "done"} => (pxOut # None /\ pxOut.kind = "response")
    /\ px.transport = "fetch" => IsInternalError(pxOut)
    /\ (px.handler = "A" /\ px.transport = "body") => IsInternalError(pxOut)

\* Handler A answered 500 after the upstream body broke off mid-stream
C8_Witness ==
    /\ px.handler = "A"
    /\ px.pc = "done"
    /\ px.transport = "body"
    /\ upRes.failAt = 1
    /\ IsInternalError(pxOut)

\* ---------------------------------------------------------------- C9
\* what the claim says handleApiError returns for v
C9_Claimed(v) ==
    IF InstanceOfApiError(v) THEN Str(v.message)
    ELSE IF InstanceOfError(v) THEN Str(v.message)
    ELSE IF v.t = "string" THEN v
    ELSE IF v.t = "object" /\ HasProp(v, "message")
            /\ GetProp(v, "message").t = "string"
         THEN GetProp(v, "message")
    ELSE IF Stringify(v).ok THEN Stringify(v).value
    ELSE Str(FallbackMessage)

\* C9: handleApiError returns, for every value, a string: the one the six
\* priorities of the claim name.
C9_ClassifierContract ==
    errPc = "classified" =>
       /\ clsOut.kind = "return"
       /\ clsOut.value.t = "string"
       /\ clsOut.value = C9_Claimed(clsIn)

\* ---------------------------------------------------------------- C10
\* C10: Handler B's response has the upstream's status, the upstream's
\* headers except content-encoding, and a body that is the upstream's chunks
\* in order: a prefix of them while the relay runs, all of them once it ends.
C10_FaithfulRelay ==
    (px.handler = "B" /\ upRes # None /\ pxOut # None) =>
       /\ pxOut.kind = "response"
       /\ pxOut.streamed
       /\ pxOut.status = upRes.status
       /\ DOMAIN pxOut.headers = DOMAIN upRes.headers \ {"content-encoding"}
       /\ \A n \in DOMAIN pxOut.headers : pxOut.headers[n] = upRes.headers[n]
       /\ Len(relayed) <= Len(upRes.chunks)
       /\ \A i \in 1..Len(relayed) : relayed[i] = upRes.chunks[i]
       /\ px.stream = "closed" => relayed = upRes.chunks

\* a compressed 404 of two chunks was relayed to its end
C10_Witness ==
    /\ px.handler = "B"
    /\ px.stream = "closed"
    /\ upRes.status = 404
    /\ "content-encoding" \in DOMAIN upRes.headers
    /\ "content-disposition" \in DOMAIN pxOut.headers
    /\ Len(relayed) >= 2

=============================================================================
